---------------------------- MODULE Spec2Model ----------------------------
(***************************************************************************)
(* Main-thread side of the bouncy-bois demo (src/bouncy-bois/src/main.ts)  *)
(* and the placement helper of the font demo                               *)
(* (src/fontloading-texture/src/utils.ts).                                 *)
(*                                                                         *)
(* Numbers are integers.  Time is counted in 1/TicksPerSecond seconds.     *)
(* A mesh is identified with the id of the object that createMesh built    *)
(* around it; "mesh |-> id" is the reference to it, meshes[id] its fields. *)
(***************************************************************************)
EXTENDS Integers, Sequences, FiniteSets, TLC

VARIABLES
  worldObjects,      \* Map<string, WorldObjects>, in insertion order
  meshPool,          \* MeshPool[]
  meshes,            \* the three.Mesh objects created so far, by id
  sharedFloatArray,  \* null, or the Float32Array view (its .buffer)
  floor,             \* floor.position / floor.quaternion
  guiManager,        \* the GUIManager fields main.ts reads and writes
  fpsDelta,          \* let fpsDelta
  sinceFrame,        \* clock.elapsedTime - deltaTime
  rafPending,        \* a requestAnimationFrame(tick) callback is scheduled
  posted,            \* worker.postMessage calls of the last event, in order
  ran,               \* functions called by the last event, in order
  announced,         \* per id: entries of ADD_OBJECTS payloads naming it
  event,             \* the last event handled
  positions          \* utils.ts: const positions

mainVars == <<worldObjects, meshPool, meshes, sharedFloatArray, floor,
              guiManager, fpsDelta, sinceFrame, rafPending, posted, ran,
              announced, event>>
vars == <<worldObjects, meshPool, meshes, sharedFloatArray, floor,
          guiManager, fpsDelta, sinceFrame, rafPending, posted, ran,
          announced, event, positions>>

Null == "null"

(***************************************************************************)
(* Program constants                                                       *)
(***************************************************************************)
StartingObjects == 20
FloatsPerObject == 7
FallLimit == -20
fpsCap == 240
minDistance == 5

(***************************************************************************)
(* Bounds of the model                                                     *)
(***************************************************************************)
MaxReady == 1
MaxReadyRepeated == 2
MaxCount == 2
TicksPerSecond == 960
MaxPlaced == 3
MaxAmount == 1

fpsInterval == TicksPerSecond \div fpsCap


(***************************************************************************)
(* Map<string, WorldObjects> as the sequence of its values in insertion    *)
(* order; an entry's key is its id.                                        *)
(***************************************************************************)
MapHas(m, key) == \E i \in 1..Len(m) : m[i].id = key

MapGet(m, key) ==
  IF MapHas(m, key)
    THEN m[CHOOSE i \in 1..Len(m) : m[i].id = key]
    ELSE Null

MapSet(m, key, val) ==
  IF MapHas(m, key)
    THEN [i \in 1..Len(m) |-> IF m[i].id = key THEN val ELSE m[i]]
    ELSE Append(m, val)

MapDelete(m, key) == SelectSeq(m, LAMBDA o : o.id # key)

(***************************************************************************)
(* The main thread's state as one record, so that a handler is a function  *)
(* from state to state and worker.onmessage composes handlers.             *)
(***************************************************************************)
Cur ==
  [worldObjects |-> worldObjects, meshPool |-> meshPool, meshes |-> meshes,
   sharedFloatArray |-> sharedFloatArray, floor |-> floor,
   guiManager |-> guiManager, fpsDelta |-> fpsDelta,
   sinceFrame |-> sinceFrame, rafPending |-> rafPending,
   posted |-> <<>>, ran |-> <<>>, announced |-> announced]

Commit(s) ==
  /\ worldObjects' = s.worldObjects
  /\ meshPool' = s.meshPool
  /\ meshes' = s.meshes
  /\ sharedFloatArray' = s.sharedFloatArray
  /\ floor' = s.floor
  /\ guiManager' = s.guiManager
  /\ fpsDelta' = s.fpsDelta
  /\ sinceFrame' = s.sinceFrame
  /\ rafPending' = s.rafPending
  /\ posted' = s.posted
  /\ ran' = s.ran
  /\ announced' = s.announced

Call(s, name) == [s EXCEPT !.ran = Append(@, name)]

\* worker.postMessage(msg); announced counts the entries of ADD_OBJECTS
\* payloads per object id.
postMessage(s, msg) ==
  [s EXCEPT
     !.posted = Append(@, msg),
     !.announced =
        IF msg.type = "ADD_OBJECTS"
          THEN [id \in DOMAIN @ |->
                  @[id] + Cardinality({k \in 1..Len(msg.payload.data) :
                                         msg.payload.data[k].id = id})]
          ELSE @]

(***************************************************************************)
(* lib/three-helper                                                        *)
(***************************************************************************)
StartPosition == <<0, 12, 0>>

NewMesh ==
  [position |-> StartPosition, quaternion |-> <<0, 0, 0, 1>>, scale |-> 1,
   visible |-> TRUE, inScene |-> FALSE, disposed |-> FALSE]

\* createMesh(geometry): a new mesh under a new id.
createMeshId(s) == Len(s.meshes) + 1

createMesh(s, geometry) ==
  [s EXCEPT !.meshes = Append(@, NewMesh), !.announced = Append(@, 0)]

disposeMesh(s, mesh) == [s EXCEPT !.meshes[mesh].disposed = TRUE]

sceneAdd(s, mesh) == [s EXCEPT !.meshes[mesh].inScene = TRUE]

sceneRemove(s, mesh) == [s EXCEPT !.meshes[mesh].inScene = FALSE]

(***************************************************************************)
(* Worker actions                                                          *)
(***************************************************************************)
AddObjectsEntry(s, o) ==
  [id |-> o.id, geometry |-> o.geometry,
   position |-> s.meshes[o.mesh].position,
   randomScale |-> s.meshes[o.mesh].scale]

\* Array.from({ length: n }).forEach: n times createMesh("sphere"),
\* worldObjects.set(threeMesh.id, threeMesh), scene.add(threeMesh.mesh).
\* The ids are new, so every set() appends an entry.
CreateStartingObjects(s, n) ==
  LET first == createMeshId(s)
      threeMesh(k) == [id |-> first + k - 1, geometry |-> "sphere",
                       mesh |-> first + k - 1]
  IN  [s EXCEPT
         !.meshes = @ \o [k \in 1..n |-> [NewMesh EXCEPT !.inScene = TRUE]],
         !.announced = @ \o [k \in 1..n |-> 0],
         !.worldObjects = @ \o [k \in 1..n |-> threeMesh(k)]]

initStartingObjects(s) ==
  LET s1 == CreateStartingObjects(Call(s, "initStartingObjects"), StartingObjects)
  IN  postMessage(s1,
        [type |-> "ADD_OBJECTS",
         payload |-> [data |-> [k \in 1..Len(s1.worldObjects) |->
                                  AddObjectsEntry(s1, s1.worldObjects[k])]]])

\* sharedFloatArray[i], i counted from 0; undefined past the end
ReadFloat(buffer, i) ==
  IF i + 1 \in DOMAIN buffer.data THEN buffer.data[i + 1] ELSE Null

\* Variant: the read offset advances only for a registered object.
RECURSIVE SyncLoopPacked(_, _, _, _)
SyncLoopPacked(s, payload, objIdx, i) ==
  IF objIdx >= payload.count THEN s
  ELSE LET id == payload.ids[objIdx + 1]
           obj == MapGet(s.worldObjects, id)
       IN  IF MapHas(s.worldObjects, id)
             THEN SyncLoopPacked(
                    [s EXCEPT
                       !.meshes[obj.mesh].position =
                          <<ReadFloat(payload.buffer, i), ReadFloat(payload.buffer, i + 1),
                            ReadFloat(payload.buffer, i + 2)>>,
                       !.meshes[obj.mesh].quaternion =
                          <<ReadFloat(payload.buffer, i + 3), ReadFloat(payload.buffer, i + 4),
                            ReadFloat(payload.buffer, i + 5), ReadFloat(payload.buffer, i + 6)>>],
                    payload, objIdx + 1, i + FloatsPerObject)
             ELSE SyncLoopPacked(s, payload, objIdx + 1, i)

\* Variant: the mesh is looked up among the pooled objects as well.
RECURSIVE SyncLoopAnyMesh(_, _, _, _)
SyncLoopAnyMesh(s, payload, objIdx, i) ==
  IF objIdx >= payload.count THEN s
  ELSE LET id == payload.ids[objIdx + 1]
           known == s.worldObjects \o s.meshPool
           obj == MapGet(known, id)
       IN  SyncLoopAnyMesh(
             IF MapHas(known, id)
               THEN [s EXCEPT
                       !.meshes[obj.mesh].position =
                          <<ReadFloat(payload.buffer, i), ReadFloat(payload.buffer, i + 1),
                            ReadFloat(payload.buffer, i + 2)>>,
                       !.meshes[obj.mesh].quaternion =
                          <<ReadFloat(payload.buffer, i + 3), ReadFloat(payload.buffer, i + 4),
                            ReadFloat(payload.buffer, i + 5), ReadFloat(payload.buffer, i + 6)>>]
               ELSE s,
             payload, objIdx + 1, i + FloatsPerObject)

RECURSIVE SyncLoop(_, _, _, _)
SyncLoop(s, payload, objIdx, i) ==
  IF objIdx >= payload.count THEN s
  ELSE LET id == payload.ids[objIdx + 1]
           px == ReadFloat(payload.buffer, i)
           py == ReadFloat(payload.buffer, i + 1)
           pz == ReadFloat(payload.buffer, i + 2)
           rx == ReadFloat(payload.buffer, i + 3)
           ry == ReadFloat(payload.buffer, i + 4)
           rz == ReadFloat(payload.buffer, i + 5)
           rw == ReadFloat(payload.buffer, i + 6)
           obj == MapGet(s.worldObjects, id)
           s1 == IF MapHas(s.worldObjects, id)
                   THEN [s EXCEPT !.meshes[obj.mesh].position = <<px, py, pz>>,
                                  !.meshes[obj.mesh].quaternion = <<rx, ry, rz, rw>>]
                   ELSE s
       IN  SyncLoop(s1, payload, objIdx + 1, i + FloatsPerObject)

udpateAndSyncMeshBodies(s, payload) ==
  LET s0 == Call(s, "udpateAndSyncMeshBodies")
      s1 == IF s0.sharedFloatArray.isNull
               \/ s0.sharedFloatArray.buffer # payload.buffer.id
              THEN [s0 EXCEPT !.sharedFloatArray =
                                 [isNull |-> FALSE, buffer |-> payload.buffer.id]]
              ELSE s0
  IN  SyncLoop(s1, payload, 0, 0)

updateAndRotateFloor(s, payload) ==
  [Call(s, "updateAndRotateFloor") EXCEPT
     !.guiManager.floorRotationX = payload.newFloorRotationX,
     !.floor = [position |-> payload.translation,
                quaternion |-> payload.rotation]]

RECURSIVE RemoveLoop(_, _, _)
RemoveLoop(s, ids, k) ==
  IF k > Len(ids) THEN s
  ELSE LET meshObject == MapGet(s.worldObjects, ids[k])
           s1 == IF MapHas(s.worldObjects, ids[k])
                   THEN disposeMesh(
                          sceneRemove(
                            [s EXCEPT !.worldObjects = MapDelete(@, ids[k])],
                            meshObject.mesh),
                          meshObject.mesh)
                   ELSE s
       IN  RemoveLoop(s1, ids, k + 1)

removeInactiveMeshBodies(s, payload) ==
  RemoveLoop(Call(s, "removeInactiveMeshBodies"), payload.ids, 1)

\* worldObjects.forEach visits the entries in insertion order; deleting the
\* entry being visited does not skip any other entry.  Per fallen entry:
\* worldObjects.delete(id), meshPool.push, mesh.visible = false, postMessage.
\* Variant: an object exactly at the limit is kept.
HasFallenStrict(s, o) == s.meshes[o.mesh].position[2] < FallLimit

HasFallen(s, o) == s.meshes[o.mesh].position[2] <= FallLimit

RemoveBodyMessage(o) ==
  LET workerMessage == [type |-> "REMOVE_BODY",
                        payload |-> [id |-> o.id, reusable |-> FALSE]]
  IN  [workerMessage EXCEPT !.payload.reusable = TRUE]

\* Variant: the fallen object is pooled but stays registered.
FallLoopKeep(s, objs) ==
  LET fallen == SelectSeq(objs, LAMBDA o : HasFallen(s, o))
      gone == {fallen[k].mesh : k \in 1..Len(fallen)}
  IN  [s EXCEPT
         !.meshPool = @ \o [k \in 1..Len(fallen) |->
                              [id |-> fallen[k].id, geometry |-> fallen[k].geometry,
                               mesh |-> fallen[k].mesh]],
         !.meshes = [m \in DOMAIN @ |->
                       IF m \in gone THEN [@[m] EXCEPT !.visible = FALSE] ELSE @[m]],
         !.posted = @ \o [k \in 1..Len(fallen) |-> RemoveBodyMessage(fallen[k])]]

FallLoop(s, objs) ==
  LET fallen == SelectSeq(objs, LAMBDA o : HasFallen(s, o))
      gone == {fallen[k].mesh : k \in 1..Len(fallen)}
  IN  [s EXCEPT
         !.worldObjects = SelectSeq(@, LAMBDA o : ~HasFallen(s, o)),
         !.meshPool = @ \o [k \in 1..Len(fallen) |->
                              [id |-> fallen[k].id, geometry |-> fallen[k].geometry,
                               mesh |-> fallen[k].mesh]],
         !.meshes = [m \in DOMAIN @ |->
                       IF m \in gone THEN [@[m] EXCEPT !.visible = FALSE] ELSE @[m]],
         !.posted = @ \o [k \in 1..Len(fallen) |-> RemoveBodyMessage(fallen[k])]]

checkAndRemoveFallingObjects(s) ==
  FallLoop(Call(s, "checkAndRemoveFallingObjects"), s.worldObjects)

worldStepTick(s, timeDelta) ==
  postMessage(Call(s, "worldStepTick"),
    [type |-> "WORLD_STEP",
     payload |-> [isFloorAnimating |-> s.guiManager.isFloorAnimating,
                  floorRotationX |-> s.guiManager.floorRotationX,
                  endFloorRotationAngle |-> s.guiManager.endFloorRotationAngle,
                  timeDelta |-> timeDelta,
                  isRaining |-> s.guiManager.isRaining,
                  rainSpeedTimer |-> s.guiManager.rainSpeedTimer]])

(***************************************************************************)
(* Worker message capture                                                  *)
(***************************************************************************)
\* Variant: the last branch is taken for every type not handled before it.
onmessageDefault(s, type, payload) ==
  IF type = "RAPIER_READY" THEN initStartingObjects(s)
  ELSE IF type = "UPDATE_MESHES" THEN udpateAndSyncMeshBodies(s, payload)
  ELSE IF type = "ROTATE_FLOOR" THEN updateAndRotateFloor(s, payload)
  ELSE removeInactiveMeshBodies(s, payload)

onmessage(s, type, payload) ==
  LET s1 == IF type = "RAPIER_READY" THEN initStartingObjects(s) ELSE s
      s2 == IF type = "UPDATE_MESHES" THEN udpateAndSyncMeshBodies(s1, payload) ELSE s1
      s3 == IF type = "ROTATE_FLOOR" THEN updateAndRotateFloor(s2, payload) ELSE s2
      s4 == IF type = "REMOVE_INACTIVES" THEN removeInactiveMeshBodies(s3, payload) ELSE s3
  IN  s4

(***************************************************************************)
(* Animate.  delta is what clock.getDelta() returns in tick, extra what    *)
(* the getDelta() inside clock.getElapsedTime() adds to elapsedTime.       *)
(***************************************************************************)
requestAnimationFrame(s) ==
  [Call(s, "requestAnimationFrame") EXCEPT !.rafPending = TRUE]

render(s) == Call(s, "render")

\* Variant: the next frame is requested after the FPS cap's early return.
tickLate(s, delta, extra) ==
  LET s1 == [s EXCEPT !.rafPending = FALSE, !.fpsDelta = @ + delta,
                      !.sinceFrame = @ + delta]
  IN  IF s1.fpsDelta < fpsInterval THEN s1
      ELSE LET timeDelta == s1.sinceFrame + extra
               s2 == requestAnimationFrame(
                       [s1 EXCEPT !.sinceFrame = 0, !.fpsDelta = @ % fpsInterval])
               s3 == worldStepTick(s2, timeDelta)
               s4 == checkAndRemoveFallingObjects(s3)
           IN  render(s4)

tick(s, delta, extra) ==
  LET s0 == requestAnimationFrame([s EXCEPT !.rafPending = FALSE])
      s1 == [s0 EXCEPT !.fpsDelta = @ + delta, !.sinceFrame = @ + delta]
  IN  IF s1.fpsDelta < fpsInterval THEN s1
      ELSE LET timeDelta == s1.sinceFrame + extra
               s2 == [s1 EXCEPT !.sinceFrame = 0,
                                !.fpsDelta = @ % fpsInterval]
               s3 == worldStepTick(s2, timeDelta)
               s4 == checkAndRemoveFallingObjects(s3)
           IN  render(s4)


(***************************************************************************)
(* Inputs: the messages the worker may deliver and the frame times         *)
(***************************************************************************)
\* The ids the worker's messages name: 1 and 2 are the first two objects
\* createMesh builds, 0 is an id main.ts never registers.
MsgIds == {0, 1, 2}

\* id lists of at most MaxCount ids, each id once, in the order of creation
IdLists ==
  UNION {{q \in [1..n -> MsgIds] : \A a, b \in 1..n : a < b => q[a] < q[b]} :
         n \in 0..MaxCount}

\* The floats of a buffer whose object k (from 1) holds bases[k] .. bases[k] + 6:
\* position x, y, z and rotation x, y, z, w.
BufferData(bases) ==
  [j \in 1..(FloatsPerObject * Len(bases)) |->
     bases[((j - 1) \div FloatsPerObject) + 1] + ((j - 1) % FloatsPerObject)]

\* Two SharedArrayBuffers with room for MaxCount objects.  y is the second
\* float of an object: base -21 gives y = -20, base -20 gives y = -19.
Buffers ==
  {[id |-> 1, data |-> BufferData([k \in 1..MaxCount |-> IF k % 2 = 1 THEN -21 ELSE -20])],
   [id |-> 2, data |-> BufferData([k \in 1..MaxCount |-> IF k % 2 = 1 THEN -20 ELSE -21])]}

\* count is the length of ids, or one less (the last id is then not read)
UpdatePayloads ==
  {[buffer |-> buffer, ids |-> ids, count |-> Len(ids)] :
     buffer \in Buffers, ids \in IdLists}
  \cup {[buffer |-> buffer, ids |-> ids, count |-> Len(ids) - 1] :
          buffer \in {b \in Buffers : b.id = 1}, ids \in IdLists \ {<<>>}}

RemovePayloads == {[ids |-> ids] : ids \in IdLists}

FloorPayloads ==
  {[newFloorRotationX |-> 0, translation |-> <<0, 0, 0>>, rotation |-> <<0, 0, 0, 1>>],
   [newFloorRotationX |-> 1, translation |-> <<0, 1, 0>>, rotation |-> <<1, 0, 0, 0>>]}

OtherPayload ==
  [buffer |-> [id |-> 1, data |-> BufferData(<<-21>>)], ids |-> <<1>>, count |-> 1,
   newFloorRotationX |-> 1, translation |-> <<0, 1, 0>>, rotation |-> <<1, 0, 0, 0>>]

Deltas == {2, 4}
Extras == {0, 1}

(***************************************************************************)
(* State after the module body of main.ts has run, the first tick() call   *)
(* included: it schedules the next frame and returns on fpsDelta = 0.      *)
(***************************************************************************)
Init ==
  /\ worldObjects = <<>>
  /\ meshPool = <<>>
  /\ meshes = <<>>
  /\ sharedFloatArray = [isNull |-> TRUE, buffer |-> 0]
  /\ floor = [position |-> <<0, 0, 0>>, quaternion |-> <<0, 0, 0, 1>>]
  /\ guiManager = [isFloorAnimating |-> FALSE, floorRotationX |-> 0,
                   endFloorRotationAngle |-> 0, isRaining |-> FALSE,
                   rainSpeedTimer |-> 5]
  /\ fpsDelta = 0
  /\ sinceFrame = 0
  /\ rafPending = TRUE
  /\ posted = <<>>
  /\ ran = <<>>
  /\ announced = <<>>
  /\ event = [kind |-> "start", type |-> Null, payload |-> Null, stale |-> FALSE]
  /\ positions = <<<<0, 0, 0>>>>

\* The message lists the id of an object that is in meshPool.
ListsPooled(type, payload) ==
  /\ type \in {"UPDATE_MESHES", "REMOVE_INACTIVES"}
  /\ \E k \in 1..Len(payload.ids) : MapHas(meshPool, payload.ids[k])

\* event keeps the payload only where logged asks for it
Deliver(type, payload, logged) ==
  /\ \E s \in {onmessage(Cur, type, payload)} : Commit(s)
  /\ event' = [kind |-> "message", type |-> type,
               payload |-> IF logged THEN payload ELSE Null,
               stale |-> ListsPooled(type, payload)]
  /\ UNCHANGED positions

RapierReady ==
  /\ Len(meshes) < MaxReady * StartingObjects
  /\ Deliver("RAPIER_READY", Null, FALSE)

UpdateMeshes == \E payload \in UpdatePayloads : Deliver("UPDATE_MESHES", payload, FALSE)

RotateFloor == \E payload \in FloorPayloads : Deliver("ROTATE_FLOOR", payload, FALSE)

RemoveInactives == \E payload \in RemovePayloads : Deliver("REMOVE_INACTIVES", payload, FALSE)

OtherMessage == Deliver("UNKNOWN", OtherPayload, FALSE)

Tick ==
  /\ rafPending
  /\ \E delta \in Deltas, extra \in Extras :
       /\ \E s \in {tick(Cur, delta, extra)} : Commit(s)
       /\ event' = [kind |-> "frame", type |-> Null,
                    payload |-> [delta |-> delta, extra |-> extra],
                    stale |-> FALSE]
  /\ UNCHANGED positions

Next ==
  \/ RapierReady
  \/ UpdateMeshes
  \/ RotateFloor
  \/ RemoveInactives
  \/ OtherMessage
  \/ Tick

Spec == Init /\ [][Next]_vars

(***************************************************************************)
(* The message handlers alone, without frames: RAPIER_READY may arrive     *)
(* again, and the UPDATE_MESHES payload is kept in event so that the       *)
(* result can be compared with it.                                         *)
(***************************************************************************)
RapierReadyRepeated ==
  /\ Len(meshes) < MaxReadyRepeated * StartingObjects
  /\ Deliver("RAPIER_READY", Null, FALSE)

LoggedUpdateMeshes ==
  \E payload \in UpdatePayloads : Deliver("UPDATE_MESHES", payload, TRUE)

NextSync ==
  \/ RapierReadyRepeated
  \/ LoggedUpdateMeshes
  \/ RemoveInactives

SpecSync == Init /\ [][NextSync]_vars


(***************************************************************************)
(* utils.ts: placement of the randomized geometry.  Coordinates are        *)
(* integers; pos.distanceTo(p) < minDistance is compared on the squares.   *)
(***************************************************************************)
DistanceSquared(a, b) ==
  (a[1] - b[1]) * (a[1] - b[1]) + (a[2] - b[2]) * (a[2] - b[2])
    + (a[3] - b[3]) * (a[3] - b[3])

\* Variant: only the starting text geometry is checked.
hasOverlapSeedOnly(placed, pos) ==
  DistanceSquared(pos, placed[1]) < minDistance * minDistance

\* placed is the positions list at the time of the call
hasOverlapNeighbor(placed, pos) ==
  \E k \in 1..Len(placed) :
    DistanceSquared(pos, placed[k]) < minDistance * minDistance

\* Values of getRandomVertex(50), which lie in [-25, 25)
VertexX == {-4, 0, 3, 4}
VertexY == {-3, 0, 3}
VertexZ == {0, 4}
Vertices == VertexX \X VertexY \X VertexZ

\* for (i = 0; i <= amount; i++): the do-while draws positions until one
\* has no close neighbour, then positions.push({ position }).
RECURSIVE PlaceLoop(_, _)
PlaceLoop(placed, n) ==
  IF n = 0 THEN {placed}
  ELSE UNION {PlaceLoop(Append(placed, pos), n - 1) :
                pos \in {v \in Vertices : ~hasOverlapNeighbor(placed, v)}}

renderRandomizedGeometry(amount) ==
  /\ Len(positions) + amount + 1 <= MaxPlaced + 1
  /\ positions' \in PlaceLoop(positions, amount + 1)
  /\ UNCHANGED mainVars

NextPlace == \E amount \in 0..MaxAmount : renderRandomizedGeometry(amount)

SpecPlace == Init /\ [][NextPlace]_vars

(***************************************************************************)
(* Properties                                                              *)
(***************************************************************************)
Range(q) == {q[k] : k \in 1..Len(q)}

Count(q, x) == Cardinality({k \in 1..Len(q) : q[k] = x})

RemoveBodyFor(msgs, id) ==
  {k \in 1..Len(msgs) : msgs[k].type = "REMOVE_BODY" /\ msgs[k].payload.id = id}

\* C1: after UPDATE_MESHES {buffer, ids, count}, every registered ids[k],
\* 0 <= k < count, has position buffer[7k .. 7k+2] and quaternion
\* buffer[7k+3 .. 7k+6]: the offset advances by 7 for unregistered ids too.
C1_SevenFloatsPerObject ==
  (event.kind = "message" /\ event.type = "UPDATE_MESHES") =>
    \A k \in 0..(event.payload.count - 1) :
      LET id == event.payload.ids[k + 1]
          data == event.payload.buffer.data
          at == FloatsPerObject * k
      IN  MapHas(worldObjects, id) =>
            /\ meshes[MapGet(worldObjects, id).mesh].position =
                 <<data[at + 1], data[at + 2], data[at + 3]>>
            /\ meshes[MapGet(worldObjects, id).mesh].quaternion =
                 <<data[at + 4], data[at + 5], data[at + 6], data[at + 7]>>

\* An update whose first id is not registered and whose second id is: the
\* second object holds the second group of 7 floats.
C1_Witness ==
  /\ event.kind = "message" /\ event.type = "UPDATE_MESHES"
  /\ event.payload.count = 2
  /\ ~MapHas(worldObjects, event.payload.ids[1])
  /\ MapHas(worldObjects, event.payload.ids[2])
  /\ meshes[event.payload.ids[2]].position[1] = event.payload.buffer.data[FloatsPerObject + 1]

\* C2: one run of checkAndRemoveFallingObjects moves every object with
\* y <= -20 from worldObjects to the end of meshPool (same id, geometry,
\* mesh), hides its mesh and posts one REMOVE_BODY with reusable = true for
\* it; every other object stays registered, unpooled and unannounced.
C2_PoolingOnRemoval ==
  [][("checkAndRemoveFallingObjects" \in Range(ran')) =>
       /\ Len(meshPool') >= Len(meshPool)
       /\ SubSeq(meshPool', 1, Len(meshPool)) = meshPool
       /\ \A i \in 1..Len(worldObjects) :
            LET o == worldObjects[i]
                added == {k \in (Len(meshPool) + 1)..Len(meshPool') :
                            meshPool'[k].id = o.id}
            IN  IF meshes[o.mesh].position[2] <= FallLimit
                  THEN /\ ~MapHas(worldObjects', o.id)
                       /\ Cardinality(added) = 1
                       /\ \A k \in added :
                            meshPool'[k] = [id |-> o.id, geometry |-> o.geometry,
                                            mesh |-> o.mesh]
                       /\ ~meshes'[o.mesh].visible
                       /\ Cardinality(RemoveBodyFor(posted', o.id)) = 1
                       /\ \A k \in RemoveBodyFor(posted', o.id) :
                            posted'[k].payload.reusable = TRUE
                  ELSE /\ MapHas(worldObjects', o.id)
                       /\ MapGet(worldObjects', o.id) = o
                       /\ added = {}
                       /\ meshes'[o.mesh] = meshes[o.mesh]
                       /\ RemoveBodyFor(posted', o.id) = {}
  ]_vars

\* A frame that pooled two objects and kept others.
C2_Witness ==
  /\ event.kind = "frame"
  /\ Len(posted) = 3
  /\ Len(meshPool) = 2
  /\ Len(worldObjects) > 0

KnownTypes == {"RAPIER_READY", "UPDATE_MESHES", "ROTATE_FLOOR", "REMOVE_INACTIVES"}

HandlerOf(type) ==
  CASE type = "RAPIER_READY" -> <<"initStartingObjects">>
    [] type = "UPDATE_MESHES" -> <<"udpateAndSyncMeshBodies">>
    [] type = "ROTATE_FLOOR" -> <<"updateAndRotateFloor">>
    [] type = "REMOVE_INACTIVES" -> <<"removeInactiveMeshBodies">>
    [] OTHER -> <<>>

\* C3: a message of one of the four handled types runs the handler of that
\* type and no other; a message of another type changes none of
\* worldObjects, meshPool, sharedFloatArray, the floor and guiManager, and
\* posts nothing.
C3_Dispatch ==
  [][(event'.kind = "message") =>
       /\ ran' = HandlerOf(event'.type)
       /\ (event'.type \notin KnownTypes) =>
            /\ UNCHANGED <<worldObjects, meshPool, sharedFloatArray, floor, guiManager>>
            /\ posted' = <<>>
  ]_vars

\* A message of an unhandled type whose payload names a registered object
\* and a new floor transform.
C3_Witness ==
  /\ event.kind = "message" /\ event.type = "UNKNOWN"
  /\ MapHas(worldObjects, 1)
  /\ guiManager.floorRotationX = 0

\* C4 (as claimed): handling RAPIER_READY posts one ADD_OBJECTS message
\* listing exactly the 20 objects it created, and no object is ever listed
\* in more than one ADD_OBJECTS entry.
C4_AnnouncedOnce ==
  /\ \A id \in DOMAIN announced : announced[id] <= 1
  /\ (event.kind = "message" /\ event.type = "RAPIER_READY") =>
       /\ Len(posted) = 1
       /\ posted[1].type = "ADD_OBJECTS"
       /\ Len(posted[1].payload.data) = StartingObjects
       /\ {posted[1].payload.data[k].id : k \in 1..Len(posted[1].payload.data)}
            = (Len(meshes) - StartingObjects + 1)..Len(meshes)

\* C5: an UPDATE_MESHES or REMOVE_INACTIVES message leaves every pooled
\* object in meshPool, with its mesh's position, quaternion, visibility and
\* disposal state as they were, and out of worldObjects.
C5_PooledUntouched ==
  [][(event'.kind = "message"
      /\ event'.type \in {"UPDATE_MESHES", "REMOVE_INACTIVES"}) =>
       \A i \in 1..Len(meshPool) :
         /\ i <= Len(meshPool')
         /\ meshPool'[i] = meshPool[i]
         /\ meshes'[meshPool[i].mesh] = meshes[meshPool[i].mesh]
         /\ ~MapHas(worldObjects', meshPool[i].id)
  ]_vars

\* An UPDATE_MESHES message that lists the id of a pooled object.
C5_Witness ==
  /\ event.kind = "message" /\ event.type = "UPDATE_MESHES"
  /\ event.stale
  /\ Len(worldObjects) > 0

\* C6: no id is both registered and pooled, meshPool holds no id twice, and
\* every pooled mesh is invisible.
C6_PoolDisjoint ==
  /\ \A i \in 1..Len(meshPool) : ~MapHas(worldObjects, meshPool[i].id)
  /\ \A i, j \in 1..Len(meshPool) : meshPool[i].id = meshPool[j].id => i = j
  /\ \A i \in 1..Len(meshPool) : ~meshes[meshPool[i].mesh].visible

\* Two pooled objects, and a later message that names one of them.
C6_Witness ==
  /\ Len(meshPool) = 2
  /\ Len(worldObjects) > 0
  /\ event.kind = "message" /\ event.type = "REMOVE_INACTIVES" /\ event.stale

\* C7: every tick schedules the next tick; a frame under the FPS cap posts
\* nothing, changes neither worldObjects nor meshPool and does not render;
\* any other frame posts one WORLD_STEP with the current guiManager
\* settings, before every REMOVE_BODY of the frame, and renders once, last.
C7_ThrottledLoop ==
  [][/\ rafPending'
     /\ (event'.kind = "frame") =>
          /\ Count(ran', "requestAnimationFrame") = 1
          /\ IF fpsDelta + event'.payload.delta < fpsInterval
               THEN /\ posted' = <<>>
                    /\ UNCHANGED <<worldObjects, meshPool>>
                    /\ "render" \notin Range(ran')
               ELSE /\ Len(posted') >= 1
                    /\ posted'[1].type = "WORLD_STEP"
                    /\ posted'[1].payload.isFloorAnimating = guiManager.isFloorAnimating
                    /\ posted'[1].payload.floorRotationX = guiManager.floorRotationX
                    /\ posted'[1].payload.endFloorRotationAngle
                         = guiManager.endFloorRotationAngle
                    /\ posted'[1].payload.isRaining = guiManager.isRaining
                    /\ posted'[1].payload.rainSpeedTimer = guiManager.rainSpeedTimer
                    /\ \A k \in 2..Len(posted') : posted'[k].type = "REMOVE_BODY"
                    /\ Count(ran', "render") = 1
                    /\ ran'[Len(ran')] = "render"
  ]_vars

\* A frame past the cap, after the worker rotated the floor, that also
\* removed an object.
C7_Witness ==
  /\ event.kind = "frame"
  /\ Len(posted) >= 2
  /\ posted[1].type = "WORLD_STEP"
  /\ posted[1].payload.floorRotationX = 1
  /\ posted[2].type = "REMOVE_BODY"


\* C8: any two positions of the positions list, the seed (0,0,0) included,
\* are at distance >= 5 from each other.
C8_NoOverlap ==
  \A i, j \in 1..Len(positions) :
    i < j => DistanceSquared(positions[i], positions[j]) >= minDistance * minDistance

\* Three meshes placed, two of them exactly 5 apart.
C8_Witness ==
  /\ Len(positions) = 4
  /\ \E i, j \in 2..Len(positions) :
       i < j /\ DistanceSquared(positions[i], positions[j]) = minDistance * minDistance

=============================================================================
